---- MODULE Spec2Model ----
(***************************************************************************)
(* Model of the slack auto-reply bot: the express handlers POST /event and *)
(* POST /command (index.ts) and the Storage class (src/storage.ts) on top  *)
(* of one MongoDB collection chatbot.users.                                *)
(*                                                                         *)
(* One handler invocation per inbound request; the invocations in progress *)
(* or finished form a bag (requests carry no identity of their own).  A    *)
(* step of the model is the                                                *)
(* synchronous part of a handler, or the completion of one awaited I/O     *)
(* (connect, findOne/updateOne, close, chat.postMessage) together with all *)
(* promise continuations that run before the next I/O is issued.           *)
(*                                                                         *)
(* Optional values (undefined | x) are sequences: <<>> is undefined and    *)
(* <<x>> is x.                                                             *)
(***************************************************************************)
EXTENDS Naturals, Sequences, FiniteSets, Bags

\* ---------------------------------------------------------------- bounds
\* Number of inbound requests in one behaviour.
MaxRequests == 2

\* ------------------------------------------------------- input alphabets
VERIFICATION_TOKEN == "secret"
Tokens == {VERIFICATION_TOKEN, "forged"}
Users == {"U1", "U2"}
Channels == {"C1", "C2"}
Texts == {"hi", "brb"}

undefined == <<>>
Some(x) == <<x>>

\* The nested event of an event_callback payload: absent, a message event (with
\* or without bot_id), or an event of another type.
MessageEvents ==
  [type : {"message"}, user : Users, channel : Channels,
   bot_id : {undefined, Some("B1")}]

OtherEvents ==
  [type : {"reaction_added"}, user : {"U1"}, channel : {"C1"},
   bot_id : {undefined}]

EventPayloads ==
       [token : Tokens, type : {"url_verification"},
        challenge : {Some("abc123")}, event : {undefined}]
  \cup [token : Tokens, type : {"app_rate_limited"},
        challenge : {undefined}, event : {undefined}]
  \cup [token : Tokens, type : {"event_callback"}, challenge : {undefined},
        event : {undefined} \cup {Some(e) : e \in MessageEvents \cup OtherEvents}]

CommandPayloads == [token : Tokens, user_id : Users, text : Texts]

\* ------------------------------------------------------------- responses
NoResponse == [status |-> 0, kind |-> "none", body |-> ""]
BadRequest(msg) == [status |-> 400, kind |-> "error", body |-> msg]
Ack == [status |-> 200, kind |-> "empty", body |-> ""]
ChallengeResponse(c) == [status |-> 200, kind |-> "challenge", body |-> c]
TextResponse(t) == [status |-> 200, kind |-> "text", body |-> t]
InternalServerError == [status |-> 500, kind |-> "error", body |-> "Internal Server Error"]

Enabled == "You have enabled auto response."
Sorry == "Sorry, im not able to do this for you."

\* A promise returned by a route handler that rejects: express 4 ignores the
\* returned promise (the request is never answered), express 5 forwards the
\* rejection to the default error handler (500).  The repository pins neither.
UnhandledRejection == {NoResponse, InternalServerError}

VARIABLES
  h,        \* the bag of handler invocations, one record per request received
  db,       \* collection chatbot.users, in natural (insertion) order
  lastPut   \* history: per user, the configuration of the latest write applied

vars == <<h, db, lastPut>>

Handlers == BagToSet(h)

NoResult == [matchedCount |-> 0, modifiedCount |-> 0, upsertedCount |-> 0]

\* The locals of a handler invocation as the request arrives.
Fresh(endpoint, body) ==
  [endpoint |-> endpoint, body |-> body, pc |-> "start", conn |-> "none",
   outcome |-> "pending", found |-> undefined, result |-> NoResult,
   config |-> undefined, ret |-> undefined, calls |-> <<>>, posted |-> <<>>,
   send |-> "none", response |-> NoResponse]

Init ==
  /\ h = EmptyBag
  /\ db = <<>>
  /\ lastPut = [u \in Users |-> undefined]

\* ------------------------------------------------------ pure helpers
TokenValid(token) == token = VERIFICATION_TOKEN

TypeValid(type) == type = "url_verification" \/ type = "event_callback"

IsFromBotNever(event) == FALSE

IsFromBot(event) == event.bot_id # undefined

\* Positions of the documents matching { user_id }.
Matching(coll, user_id) == {k \in DOMAIN coll : coll[k].user_id = user_id}

Min(S) == CHOOSE k \in S : \A m \in S : k <= m

\* findOne({ user_id }): the first matching document, or null.
FindOne(coll, user_id) ==
  IF Matching(coll, user_id) = {} THEN undefined
  ELSE Some(coll[Min(Matching(coll, user_id))])

\* result?.config
ConfigOf(found) == IF found = undefined THEN undefined ELSE Some(found[1].config)

PutResultMatched(result) == result.upsertedCount > 0 \/ result.matchedCount > 0

PutResult(result) == result.upsertedCount > 0 \/ result.modifiedCount > 0

ReplyTextFixed(config) == "Im currently out of office"

ReplyText(config) == config.reply_message

CloseNotAwaited(conn) == conn

\* The state of the connection when the promise of connection.close(), which
\* the .finally callback returns and the chain therefore waits for, resolves.
CloseResolved(conn) == "closed"

\* Where a rejection of the Storage promise ends up.  In /event the chain
\* storage.findUserConfiguration(..).then(..).then(resolve) has no rejection
\* handler and resolve is never called, so res.send() never runs.  In /command
\* the rejected chain is the promise the route handler returns.
OnStoreRejection(endpoint) ==
  IF endpoint = "/event" THEN {NoResponse} ELSE UnhandledRejection

\* The document written by $set: { user_id, config }.
Document(user_id, config) == [user_id |-> user_id, config |-> config]

\* ------------------------------------------------------------ actions
\* A new request arrives and its handler runs up to rec.
Arrive(rec) ==
  /\ BagCardinality(h) < MaxRequests
  /\ h' = h (+) SetToBag({rec})

\* Handler r moves on to rec.
Step(r, rec) == h' = (h (-) SetToBag({r})) (+) SetToBag({rec})

\* The handler has no continuation left to run.
Finished(rec, response) == [rec EXCEPT !.pc = "done", !.response = response]

\* app.post('/event'): the synchronous part of the handler, up to the first
\* awaited I/O.
PostEvent(body) ==
  LET rec == Fresh("/event", body) IN
  /\ UNCHANGED <<db, lastPut>>
  /\ IF ~TokenValid(body.token)
       THEN Arrive(Finished(rec, BadRequest("Invalid request token")))
     ELSE IF ~TypeValid(body.type)
       THEN Arrive(Finished(rec, BadRequest("Invalid request event type")))
     ELSE IF body.type = "url_verification"
       THEN Arrive(Finished(rec, ChallengeResponse(body.challenge[1])))
     ELSE IF body.event = undefined
       \* event.type on undefined throws a TypeError inside the async handler
       THEN \E r \in UnhandledRejection : Arrive(Finished(rec, r))
     ELSE IF body.event[1].type # "message"
       THEN Arrive(Finished(rec, BadRequest("Invalid event received")))
     ELSE IF IsFromBot(body.event[1])
       \* resolve(false), then res.send()
       THEN Arrive(Finished(rec, Ack))
     ELSE \* new Storage; findUserConfiguration: this.client.connect()
       Arrive([rec EXCEPT !.pc = "connect", !.conn = "connecting",
                          !.calls = <<"connect">>])

\* app.post('/command'): new Storage; storeConfiguration: this.client.connect()
PostCommand(body) ==
  /\ UNCHANGED <<db, lastPut>>
  /\ Arrive([Fresh("/command", body) EXCEPT !.pc = "connect",
                                            !.conn = "connecting",
                                            !.calls = <<"connect">>])

\* client.connect() resolves: the collection operation is issued.
ConnectOk(r) ==
  /\ r.pc = "connect"
  /\ UNCHANGED <<db, lastPut>>
  /\ Step(r, [r EXCEPT !.pc = "query", !.conn = "open",
                       !.calls = Append(@, IF r.endpoint = "/event"
                                             THEN "findOne" ELSE "updateOne")])

\* client.connect() rejects: no connection was opened, the .then callbacks are
\* skipped and the Storage promise rejects.
ConnectFail(r) ==
  /\ r.pc = "connect"
  /\ UNCHANGED <<db, lastPut>>
  /\ \E resp \in OnStoreRejection(r.endpoint) :
       Step(r, Finished([r EXCEPT !.conn = "failed", !.outcome = "rejected"], resp))

\* .finally(() => connection.close()) once the collection operation settled.
Settled(rec, outcome) ==
  [rec EXCEPT !.pc = "close", !.outcome = outcome, !.conn = "closing",
              !.calls = Append(@, "close")]

\* findOne({ user_id }) resolves.
FindOneOk(r) ==
  /\ r.pc = "query"
  /\ r.endpoint = "/event"
  /\ UNCHANGED <<db, lastPut>>
  /\ Step(r, Settled([r EXCEPT !.found = FindOne(db, r.body.event[1].user)],
                     "fulfilled"))

\* updateOne({ user_id }, { $set: { user_id, config } }, { upsert: true }) on a
\* collection without a unique index on user_id: when a document matches, it is
\* updated in place (one atomic single-document write); when none matches, the
\* insert of the upsert is a later write, not atomic with the query.
UpdateOneQuery(r) ==
  LET user_id == r.body.user_id
      doc == Document(user_id, [reply_message |-> r.body.text])
      m == Matching(db, user_id)
  IN
  /\ r.pc = "query"
  /\ r.endpoint = "/command"
  /\ IF m = {}
       THEN /\ Step(r, [r EXCEPT !.pc = "upsert"])
            /\ UNCHANGED <<db, lastPut>>
       ELSE /\ db' = [db EXCEPT ![Min(m)] = doc]
            /\ lastPut' = [lastPut EXCEPT ![user_id] = Some(doc.config)]
            /\ Step(r, Settled([r EXCEPT !.result =
                                  [matchedCount |-> 1,
                                   modifiedCount |-> IF db[Min(m)] = doc THEN 0 ELSE 1,
                                   upsertedCount |-> 0]],
                               "fulfilled"))

\* The insert of an upsert whose query matched nothing.
UpdateOneUpsert(r) ==
  LET user_id == r.body.user_id
      doc == Document(user_id, [reply_message |-> r.body.text])
  IN
  /\ r.pc = "upsert"
  /\ db' = Append(db, doc)
  /\ lastPut' = [lastPut EXCEPT ![user_id] = Some(doc.config)]
  /\ Step(r, Settled([r EXCEPT !.result =
                        [matchedCount |-> 0, modifiedCount |-> 0,
                         upsertedCount |-> 1]],
                     "fulfilled"))

\* The collection operation rejects (network error, timeout) before the
\* server applied it.
OperationFail(r) ==
  /\ r.pc \in {"query", "upsert"}
  /\ UNCHANGED <<db, lastPut>>
  /\ Step(r, Settled(r, "rejected"))

\* connection.close() resolves; the promise returned by .finally settles with
\* the outcome of the collection operation and the remaining continuations run.
CloseDone(r) ==
  LET rec == [r EXCEPT !.conn = CloseResolved(@)] IN
  /\ r.pc = "close"
  /\ UNCHANGED <<db, lastPut>>
  /\ IF r.outcome = "rejected"
       THEN \E resp \in OnStoreRejection(r.endpoint) : Step(r, Finished(rec, resp))
     ELSE IF r.endpoint = "/command"
       THEN LET ret == PutResult(r.result) IN
            Step(r, Finished([rec EXCEPT !.ret = Some(ret)],
                             TextResponse(IF ret = TRUE THEN Enabled ELSE Sorry)))
     ELSE LET config == ConfigOf(r.found) IN
          IF config = undefined
            THEN Step(r, Finished(rec, Ack))
            ELSE Step(r, [rec EXCEPT !.config = config, !.pc = "post",
                                     !.send = "pending",
                                     !.calls = Append(@, "postMessage"),
                                     !.posted = Append(@,
                                        [channel |-> r.body.event[1].channel,
                                         text |-> ReplyText(config[1])])])

\* client.chat.postMessage resolves: resolve, then res.send().
PostMessageOk(r) ==
  /\ r.pc = "post"
  /\ UNCHANGED <<db, lastPut>>
  /\ Step(r, Finished([r EXCEPT !.send = "ok"], Ack))

\* client.chat.postMessage rejects: .then(resolve) is skipped and the promise
\* the handler waits on never settles.
PostMessageFail(r) ==
  /\ r.pc = "post"
  /\ UNCHANGED <<db, lastPut>>
  /\ Step(r, Finished([r EXCEPT !.send = "failed"], NoResponse))

Next ==
  \/ \E body \in EventPayloads : PostEvent(body)
  \/ \E body \in CommandPayloads : PostCommand(body)
  \/ \E r \in Handlers : ConnectOk(r)
  \/ \E r \in Handlers : ConnectFail(r)
  \/ \E r \in Handlers : FindOneOk(r)
  \/ \E r \in Handlers : UpdateOneQuery(r)
  \/ \E r \in Handlers : UpdateOneUpsert(r)
  \/ \E r \in Handlers : OperationFail(r)
  \/ \E r \in Handlers : CloseDone(r)
  \/ \E r \in Handlers : PostMessageOk(r)
  \/ \E r \in Handlers : PostMessageFail(r)

Spec == Init /\ [][Next]_vars

\* ------------------------------------------------------------ claims
EventHandlers == {r \in Handlers : r.endpoint = "/event"}
CommandHandlers == {r \in Handlers : r.endpoint = "/command"}

\* The number of times handler r issued the call named c.
Count(r, c) == Cardinality({k \in DOMAIN r.calls : r.calls[k] = c})

TouchedStore(r) == \E k \in DOMAIN r.calls : r.calls[k] \in {"findOne", "updateOne"}

\* An event payload that passes the token, type and event validation as an
\* event_callback message.
ValidMessage(body) ==
  /\ body.token = VERIFICATION_TOKEN
  /\ body.type = "event_callback"
  /\ body.event # undefined
  /\ body.event[1].type = "message"

\* C1: a request whose token is not the verification secret, at either
\* endpoint, never reads or writes the store, never calls sendMessage, and ends
\* with a client error.
C1_ForgedTokenRejected ==
  \A r \in Handlers :
    r.body.token # VERIFICATION_TOKEN =>
      /\ ~TouchedStore(r)
      /\ r.posted = <<>>
      /\ r.pc = "done" => r.response.status = 400

\* C2: an event_callback message request that passed validation and whose
\* handler has nothing left to run has been answered with the empty success
\* acknowledgment, whatever the downstream calls did.
C2_ValidEventAcknowledged ==
  \A r \in EventHandlers :
    (ValidMessage(r.body) /\ r.pc = "done") => r.response = Ack

\* C3: a command request whose store put failed and whose handler has nothing
\* left to run has been answered with the 'unable to do this' string.
C3_PutFailureAnswered ==
  \A r \in CommandHandlers :
    (r.outcome = "rejected" /\ r.pc = "done") => r.response = TextResponse(Sorry)

\* C4: at most one configuration document exists per user_id.
C4_OneDocumentPerUser ==
  \A u \in Users : Cardinality(Matching(db, u)) <= 1

\* C5: get(u) returns the configuration of the latest put applied for u.
C5_RoundTrip ==
  \A u \in Users :
    lastPut[u] # undefined => ConfigOf(FindOne(db, u)) = lastPut[u]

\* C6: no request makes more than one sendMessage call or more than one store
\* lookup; an event request of a non-bot user whose lookup returned a stored
\* configuration has made exactly one sendMessage call, to the event's channel
\* and with the reply_message stored for the event's user.
C6_ExactlyOneReply ==
  \A r \in Handlers :
    /\ Len(r.posted) <= 1
    /\ Count(r, "findOne") <= 1
    /\ Count(r, "postMessage") = Len(r.posted)
    /\ (r.endpoint = "/event" /\ r.found # undefined /\ r.pc \in {"post", "done"}) =>
         /\ r.found[1].user_id = r.body.event[1].user
         /\ r.posted = <<[channel |-> r.body.event[1].channel,
                          text |-> r.found[1].config.reply_message]>>

\* A non-bot message in channel C2 of a user whose stored reply is "hi" was
\* answered with one sendMessage call and acknowledged.
C6_Witness ==
  \E r \in EventHandlers :
    /\ r.pc = "done"
    /\ r.response = Ack
    /\ r.body.event[1].bot_id = undefined
    /\ r.posted = <<[channel |-> "C2", text |-> "hi"]>>
    /\ r.send = "ok"

\* C7: sendMessage is called only for a message event without bot_id whose
\* lookup found a configuration; an event with bot_id makes no store call and
\* no sendMessage call; a lookup that found nothing is followed by no
\* sendMessage call.
C7_ReplyOnlyWhenConfigured ==
  \A r \in Handlers :
    /\ r.posted # <<>> =>
         /\ r.endpoint = "/event"
         /\ ValidMessage(r.body)
         /\ r.body.event[1].bot_id = undefined
         /\ r.found # undefined
    /\ (r.endpoint = "/event" /\ r.body.event # undefined
          /\ r.body.event[1].bot_id # undefined) =>
         (r.calls = <<>> /\ r.posted = <<>>)
    /\ (r.endpoint = "/event" /\ r.found = undefined) => r.posted = <<>>

\* A bot-originated message of a user with a stored configuration was
\* acknowledged without a lookup.
C7_Witness ==
  \E r \in EventHandlers :
    /\ ValidMessage(r.body)
    /\ r.body.event[1].bot_id # undefined
    /\ FindOne(db, r.body.event[1].user) # undefined
    /\ r.response = Ack

\* The step in which the server applies the updateOne of handler r, which
\* becomes r2.
Applies(r, r2) ==
  /\ r.endpoint = "/command"
  /\ r.pc \in {"query", "upsert"}
  /\ r2.pc = "close"
  /\ r2.outcome = "fulfilled"
  /\ r2.body = r.body
  /\ h' = (h (-) SetToBag({r})) (+) SetToBag({r2})

\* A step that applies an updateOne reports, through the value storeConfiguration
\* computes from its result, whether it changed the collection.
C8_PutResultStep ==
  \A r \in Handlers : \A r2 \in BagToSet(h') :
    Applies(r, r2) =>
      LET doc == Document(r.body.user_id, [reply_message |-> r.body.text]) IN
      /\ PutResult(r2.result) <=> (db' # db)
      /\ (r.pc = "query" /\ FindOne(db, r.body.user_id) = Some(doc)) =>
           /\ ~PutResult(r2.result)
           /\ db' = db
           /\ ConfigOf(FindOne(db', r.body.user_id)) = Some(doc.config)

\* The value storeConfiguration resolved to, and the answer built from it.
C8_Returned ==
  \A r \in CommandHandlers :
    r.ret # undefined =>
      /\ r.ret[1] = (r.result.upsertedCount > 0 \/ r.result.modifiedCount > 0)
      /\ r.response = TextResponse(IF r.ret[1] THEN Enabled ELSE Sorry)

\* C8: storeConfiguration resolves to true exactly when its updateOne inserted a
\* document or changed the stored one; a put that finds the configuration
\* already stored resolves to false and leaves the collection as it was, with
\* get(u) still returning that configuration.
C8_PutResult == [][C8_PutResultStep]_vars /\ []C8_Returned

\* The same put made twice: the first resolved to true, the second to false.
C8_Witness ==
  \E r1 \in CommandHandlers, r2 \in CommandHandlers :
    /\ r1.body = r2.body
    /\ r1.ret = Some(TRUE)
    /\ r2.ret = Some(FALSE)
    /\ r2.result.matchedCount = 1
    /\ ConfigOf(FindOne(db, r1.body.user_id)) = Some([reply_message |-> r1.body.text])

\* C9: a token-valid event payload with a type other than url_verification and
\* event_callback, or an event_callback payload whose event is missing or not
\* of type message, ends in a client error, with no store call and no
\* sendMessage call.
C9_InvalidPayloadRejected ==
  \A r \in EventHandlers :
    ( /\ r.body.token = VERIFICATION_TOKEN
      /\ \/ r.body.type \notin {"url_verification", "event_callback"}
         \/ /\ r.body.type = "event_callback"
            /\ (r.body.event = undefined \/ r.body.event[1].type # "message") ) =>
      /\ r.pc = "done"
      /\ r.response.status = 400
      /\ r.calls = <<>>
      /\ r.posted = <<>>

\* C10: a handler opens at most one connection, its own, and once the result
\* or the error of its store operation has been delivered, the connection is
\* not open: it was closed, or never opened because connect failed.
C10_ConnectionReleased ==
  \A r \in Handlers :
    /\ Count(r, "connect") <= 1
    /\ Count(r, "close") <= Count(r, "connect")
    /\ r.pc \in {"post", "done"} => r.conn \in {"none", "failed", "closed"}
    /\ (r.pc \in {"post", "done"} /\ TouchedStore(r)) =>
         (r.conn = "closed" /\ Count(r, "close") = 1)

\* A put whose updateOne failed and a lookup that succeeded were both
\* delivered.
C10_Witness ==
  /\ \E r \in CommandHandlers :
       /\ r.pc = "done"
       /\ r.outcome = "rejected"
       /\ Count(r, "updateOne") = 1
       /\ r.conn = "closed"
  /\ \E r \in EventHandlers :
       /\ r.pc = "done"
       /\ r.outcome = "fulfilled"
       /\ Count(r, "findOne") = 1
       /\ r.conn = "closed"
====
